---------------------------- MODULE Spec2Model ----------------------------
(***************************************************************************)
(* Model of main.py of rand-tiktok-post: the relevance filter              *)
(* is_twice_related, the metadata fetch get_video_info, download_video and *)
(* the __main__ script with its ledger file downloads/video_id_list.txt.   *)
(*                                                                         *)
(* A Python str is modelled as a sequence of one-character strings, so     *)
(* that lower(), the "in" substring test, re.findall and splitlines() are  *)
(* computed character by character.  The four Hangul syllables of the      *)
(* Korean group name are written "uD2B8","uC640","uC774","uC2A4".          *)
(* Python's None is <<>> and a present value v is <<v>> (None / Some).     *)
(***************************************************************************)
EXTENDS Integers, Sequences, FiniteSets, TLC

VARIABLES
  ledger,        \* ID_LIST_FILE on disk: [exists, text]
  run,           \* number of the current invocation of the script
  pc,            \* position of the current invocation in __main__
  argv_url,      \* whether sys.argv[1] was given
  caption,       \* get_video_info / is_twice_related: caption
  hashtags,      \* get_video_info / is_twice_related: hashtags
  uploader,      \* get_video_info / is_twice_related: uploader
  result,        \* (is_valid, reason) returned by is_twice_related, None before
  video_info,    \* __main__: video_info (None or the dict)
  uploaded_ids,  \* __main__: uploaded_ids
  video_path,    \* __main__: video_path (None or the path)
  files,         \* the files present in SAVE_DIR besides the ledger
  calls,         \* external calls made by the current invocation, in order
  log,           \* lines printed by the current invocation, in order
  exit_code,     \* None while running, then the process exit status
  recorded,      \* history: identifiers written by f.write so far
  ledger_start,  \* history: the ledger when the current invocation started
  ledger_init    \* history: the ledger before the first invocation

vars == << ledger, run, pc, argv_url, caption, hashtags, uploader, result,
           video_info, uploaded_ids, video_path, files, calls, log,
           exit_code, recorded, ledger_start, ledger_init >>

None == << >>
Some(v) == << v >>

(***************************************************************************)
(* Strings                                                                 *)
(***************************************************************************)
UpperCase == <<"A","B","C","D","E","F","G","H","I","J","K","L","M",
               "N","O","P","Q","R","S","T","U","V","W","X","Y","Z">>
LowerCase == <<"a","b","c","d","e","f","g","h","i","j","k","l","m",
               "n","o","p","q","r","s","t","u","v","w","x","y","z">>
Digits == {"0","1","2","3","4","5","6","7","8","9"}
Hangul == {"uD2B8","uC640","uC774","uC2A4"}

Range(s) == { s[i] : i \in 1..Len(s) }

\* str.lower() on one character
LowerChar(c) ==
  IF \E i \in 1..26 : UpperCase[i] = c
    THEN LowerCase[CHOOSE i \in 1..26 : UpperCase[i] = c]
    ELSE c

\* str.lower()
lower(s) == [ i \in 1..Len(s) |-> LowerChar(s[i]) ]

\* Python's  p in s  for two strings
IsSubstring(p, s) ==
  \E i \in 0..(Len(s) - Len(p)) : SubSeq(s, i + 1, i + Len(p)) = p

\* Python's  x in xs  for a list
InList(x, xs) == \E i \in 1..Len(xs) : xs[i] = x

\* the regex class \w on str
IsWordChar(c) ==
  c \in Range(UpperCase) \cup Range(LowerCase) \cup Digits \cup Hangul \cup {"_"}

\* end of the longest run of \w characters of s that starts at position i
RECURSIVE WordEnd(_, _)
WordEnd(s, i) ==
  IF i <= Len(s) /\ IsWordChar(s[i]) THEN WordEnd(s, i + 1) ELSE i - 1

\* re.findall(r"#(\w+)", s), scanning from position i
RECURSIVE FindAllFrom(_, _)
FindAllFrom(s, i) ==
  IF i > Len(s) THEN << >>
  ELSE IF s[i] = "#" /\ WordEnd(s, i + 1) >= i + 1
    THEN << SubSeq(s, i + 1, WordEnd(s, i + 1)) >>
           \o FindAllFrom(s, WordEnd(s, i + 1) + 1)
    ELSE FindAllFrom(s, i + 1)

findall_hashtags(s) == FindAllFrom(s, 1)

(***************************************************************************)
(* Configuration lists of main.py                                          *)
(***************************************************************************)
TWICE_MEMBERS ==
  << <<"n","a","y","e","o","n">>,
     <<"j","e","o","n","g","y","e","o","n">>,
     <<"m","o","m","o">>,
     <<"s","a","n","a">>,
     <<"j","i","h","y","o">>,
     <<"m","i","n","a">>,
     <<"d","a","h","y","u","n">>,
     <<"c","h","a","e","y","o","u","n","g">>,
     <<"t","z","u","y","u">> >>

OFFICIAL_ACCOUNTS_TO_SKIP ==
  << <<"t","w","i","c","e","_","t","i","k","t","o","k","_","o","f","f","i","c","i","a","l">>,
     <<"t","w","i","c","e",".","o","f","f","i","c","i","a","l">>,
     <<"j","y","p","e","t","w","i","c","e">>,
     <<"t","w","i","c","e","t","a","g","r","a","m">> >>

twice_specific_tags ==
  << <<"uD2B8","uC640","uC774","uC2A4">>,
     <<"t","w","i","c","e","_">>,
     <<"o","n","c","e">>,
     <<"j","y","p","e","n","t","e","r","t","a","i","n","m","e","n","t">>,
     <<"j","y","p","e">>,
     <<"f","e","e","l","s","p","e","c","i","a","l">>,
     <<"f","a","n","c","y","y","o","u">>,
     <<"t","w","i","c","e","t","a","g","r","a","m">>,
     <<"f","o","r","m","u","l","a","_","o","f","_","l","o","v","e">>,
     <<"b","e","t","w","e","e","n","1","a","n","d","2">>,
     <<"r","e","a","d","y","t","o","b","e">>,
     <<"w","i","t","h","_","y","o","u","_","t","h">>,
     <<"c","e","l","e","b","r","a","t","e">>,
     <<"t","a","l","k","_","t","h","a","t","_","t","a","l","k">>,
     <<"s","c","i","e","n","t","i","s","t">>,
     <<"p","e","r","f","e","c","t","_","w","o","r","l","d">>,
     <<"t","h","e","_","f","e","e","l","s">> >>

group_keywords ==
  << <<"uD2B8","uC640","uC774","uC2A4">>,
     <<"a","n","n","i","v","e","r","s","a","r","y">>,
     <<"c","o","m","e","b","a","c","k">>,
     <<"d","e","b","u","t">>,
     <<"m","v">>,
     <<"c","h","o","r","e","o","g","r","a","p","h","y">>,
     <<"p","e","r","f","o","r","m","a","n","c","e">>,
     <<"s","t","a","g","e">>,
     <<"c","o","n","c","e","r","t">>,
     <<"s","h","o","w","c","a","s","e">>,
     <<"o","n","c","e">>,
     <<"o","t","9">>,
     <<"e","d","i","t">>,
     <<"f","a","n","m","a","d","e">>,
     <<"c","o","v","e","r">> >>

blocklist ==
  << <<"n","o","t"," ","t","w","i","c","e">>,
     <<"v","s"," ","t","w","i","c","e">>,
     <<"b","e","t","t","e","r"," ","t","h","a","n"," ","t","w","i","c","e">>,
     <<"b","l","a","c","k","p","i","n","k">>,
     <<"b","t","s">>,
     <<"i","t","z","y">>,
     <<"a","e","s","p","a">>,
     <<"t","u","t","o","r","i","a","l">>,
     <<"h","o","w"," ","t","o">>,
     <<"c","h","a","l","l","e","n","g","e">>,
     <<"g","i","v","e","a","w","a","y">>,
     <<"c","o","n","t","e","s","t">>,
     <<"f","o","l","l","o","w"," ","f","o","r">> >>

(***************************************************************************)
(* is_twice_related                                                        *)
(***************************************************************************)
\* mutation: the handle is compared without lower()
is_official_case_sensitive(up) == InList(up, OFFICIAL_ACCOUNTS_TO_SKIP)

is_official(up) ==
  InList(lower(up), [ i \in 1..Len(OFFICIAL_ACCOUNTS_TO_SKIP) |->
                        lower(OFFICIAL_ACCOUNTS_TO_SKIP[i]) ])

\* mutation: "twice" in ht for some hashtag, instead of "twice" in the list
has_twice_tag_substring(hashtags_lower) ==
  \E i \in 1..Len(hashtags_lower) :
     IsSubstring(<<"t","w","i","c","e">>, hashtags_lower[i])

has_twice_tag(hashtags_lower) == InList(<<"t","w","i","c","e">>, hashtags_lower)

\* 1. member hashtags
matching_members(hashtags_lower) ==
  SelectSeq(TWICE_MEMBERS, LAMBDA m : InList(m, hashtags_lower))

\* mutation: m == caption_lower instead of m in caption_lower
caption_members_equal(caption_lower) ==
  SelectSeq(TWICE_MEMBERS, LAMBDA m : m = caption_lower)

\* 2. member names in the caption
caption_members(caption_lower) ==
  SelectSeq(TWICE_MEMBERS, LAMBDA m : IsSubstring(m, caption_lower))

\* 3. specific hashtags
matching_specific(hashtags_lower) ==
  SelectSeq(twice_specific_tags,
            LAMBDA tag : \E i \in 1..Len(hashtags_lower) :
                            IsSubstring(tag, hashtags_lower[i]))

\* 4. group keywords
matching_keywords(caption_lower) ==
  SelectSeq(group_keywords, LAMBDA kw : IsSubstring(kw, caption_lower))

\* mutation: every roster name and every keyword found in the caption counts
evidence_count_per_match(caption_lower, hashtags_lower) ==
    Len(matching_members(hashtags_lower))
  + Len(caption_members(caption_lower))
  + Len(matching_specific(hashtags_lower))
  + Len(matching_keywords(caption_lower))

evidence_count(caption_lower, hashtags_lower) ==
    Len(matching_members(hashtags_lower))
  + (IF caption_members(caption_lower) # << >> THEN 1 ELSE 0)
  + Len(matching_specific(hashtags_lower))
  + (IF matching_keywords(caption_lower) # << >> THEN 1 ELSE 0)

Take(s, n) == SubSeq(s, 1, IF Len(s) < n THEN Len(s) ELSE n)

evidence_list(caption_lower, hashtags_lower) ==
     (IF matching_members(hashtags_lower) # << >>
        THEN << <<"member tags", matching_members(hashtags_lower)>> >>
        ELSE << >>)
  \o (IF caption_members(caption_lower) # << >>
        THEN << <<"members mentioned", Range(caption_members(caption_lower))>> >>
        ELSE << >>)
  \o (IF matching_specific(hashtags_lower) # << >>
        THEN << <<"specific tags", Take(matching_specific(hashtags_lower), 3)>> >>
        ELSE << >>)
  \o (IF matching_keywords(caption_lower) # << >>
        THEN << <<"keywords", Take(matching_keywords(caption_lower), 2)>> >>
        ELSE << >>)

required_evidence == 2

\* mutation: off by one, a single piece of evidence passes
insufficient_off_by_one(count) == count + 1 < required_evidence

\* line 100
insufficient(count) == count < required_evidence

\* mutation: blocked == caption_lower instead of blocked in caption_lower
blocked_found_equal(caption_lower) ==
  SelectSeq(blocklist, LAMBDA blocked : blocked = caption_lower)

\* the blocklist entries found in the caption, in blocklist order
blocked_found(caption_lower) ==
  SelectSeq(blocklist, LAMBDA blocked : IsSubstring(blocked, caption_lower))

\* mutation: the hashtag requirement is tested before the official accounts
is_twice_related_hashtag_first(cap, tags, up) ==
  LET caption_lower  == lower(cap)
      hashtags_lower == [ i \in 1..Len(tags) |-> lower(tags[i]) ]
      count          == evidence_count(caption_lower, hashtags_lower)
  IN  IF ~ has_twice_tag(hashtags_lower)
        THEN [is_valid |-> FALSE, reason |-> <<"Missing #twice hashtag">>]
      ELSE IF is_official(up)
        THEN [is_valid |-> FALSE, reason |-> <<"Skipping official account", up>>]
      ELSE IF insufficient(count)
        THEN [is_valid |-> FALSE,
              reason |-> <<"Insufficient evidence", count, required_evidence>>]
      ELSE IF blocked_found(caption_lower) # << >>
        THEN [is_valid |-> FALSE,
              reason |-> <<"Blocklist keyword detected",
                           Head(blocked_found(caption_lower))>>]
      ELSE [is_valid |-> TRUE,
            reason |-> <<"Valid TWICE fan content", count,
                         evidence_list(caption_lower, hashtags_lower)>>]

\* the pair (is_valid, reason); reason is the message and its interpolated values
is_twice_related(cap, tags, up) ==
  LET caption_lower  == lower(cap)
      hashtags_lower == [ i \in 1..Len(tags) |-> lower(tags[i]) ]
      count          == evidence_count(caption_lower, hashtags_lower)
  IN  IF is_official(up)
        THEN [is_valid |-> FALSE, reason |-> <<"Skipping official account", up>>]
      ELSE IF ~ has_twice_tag(hashtags_lower)
        THEN [is_valid |-> FALSE, reason |-> <<"Missing #twice hashtag">>]
      ELSE IF insufficient(count)
        THEN [is_valid |-> FALSE,
              reason |-> <<"Insufficient evidence", count, required_evidence>>]
      ELSE IF blocked_found(caption_lower) # << >>
        THEN [is_valid |-> FALSE,
              reason |-> <<"Blocklist keyword detected",
                           Head(blocked_found(caption_lower))>>]
      ELSE [is_valid |-> TRUE,
            reason |-> <<"Valid TWICE fan content", count,
                         evidence_list(caption_lower, hashtags_lower)>>]

(***************************************************************************)
(* Bounds and input sets                                                   *)
(***************************************************************************)
MaxRuns    == 2   \* invocations of the script in one behaviour
MaxIdLen   == 1   \* characters of a video identifier
MaxInitLen == 4   \* characters of the ledger file found by the first run
MaxWords   == 2   \* words of a caption handed to is_twice_related
MaxTags    == 2   \* hashtags handed to is_twice_related

NL == "\n"
IdChars == {"2", "3"}

\* the non-empty sequences over S of length at most n
SeqsUpTo(S, n) == UNION { [1..k -> S] : k \in 0..n }
Ids == SeqsUpTo(IdChars, MaxIdLen) \ { << >> }

\* the ledger files the first invocation may find: absent, or any text of
\* identifier characters and newlines (written by this script or by hand)
InitLedgers ==
  { [exists |-> FALSE, text |-> << >>] } \cup
  { [exists |-> TRUE, text |-> t] : t \in SeqsUpTo(IdChars \cup {NL}, MaxInitLen) }

\* inputs of the classifier
CaptionWords ==
  { <<"d","a","n","c","e">>, <<"M","o","m","o">>, <<"B","T","S">>,
    <<"o","t","9">>, <<"#","n","a","y","e","o","n">> }
TagWords ==
  { <<"t","w","i","c","e">>, <<"T","W","I","C","E">>,
    <<"n","a","y","e","o","n">>, <<"o","n","c","e">>,
    <<"t","w","i","c","e","_","x">> }
Uploaders ==
  { <<"r","a","n","d","o","m","f","a","n","1","2","3">>,
    <<"J","Y","P","E","t","w","i","c","e">>,
    <<"t","w","i","c","e",".","o","f","f","i","c","i","a","l">>,
    <<"u","n","k","n","o","w","n">> }

\* the words of ws joined by single spaces
RECURSIVE JoinWords(_)
JoinWords(ws) ==
  IF ws = << >> THEN << >>
  ELSE IF Len(ws) = 1 THEN ws[1]
  ELSE ws[1] \o <<" ">> \o JoinWords(Tail(ws))

Captions == { JoinWords(ws) : ws \in SeqsUpTo(CaptionWords, MaxWords) }
HashtagLists == SeqsUpTo(TagWords, MaxTags)

\* the JSON documents yt-dlp -j may print: "id" and "webpage_url" may be
\* missing (None), "description", "uploader", "uploader_id" may be empty
FanHandle == <<"r","a","n","d","o","m","f","a","n","1","2","3">>
PayloadCaptions ==
  { << >>,
    <<"d","a","n","c","e"," ","#","t","w","i","c","e">>,
    <<"#","T","W","I","C","E"," ","#","N","a","y","e","o","n"," ","o","t","9">> }
PayloadUploaders ==
  { [uploader |-> FanHandle, uploader_id |-> << >>],
    [uploader |-> << >>, uploader_id |-> <<"J","Y","P","E","t","w","i","c","e">>],
    [uploader |-> << >>, uploader_id |-> << >>] }
webpage_url(id) == <<"h","t","t","p","s",":","/","/","t","/">> \o id
Payloads ==
  { [id |-> Some(i), webpage_url |-> Some(webpage_url(i)), description |-> d,
     uploader |-> u.uploader, uploader_id |-> u.uploader_id] :
       i \in Ids, d \in PayloadCaptions, u \in PayloadUploaders }
  \cup
  { [id |-> None, webpage_url |-> None, description |-> d,
     uploader |-> u.uploader, uploader_id |-> u.uploader_id] :
       d \in PayloadCaptions, u \in PayloadUploaders }

(***************************************************************************)
(* The ledger file                                                         *)
(***************************************************************************)
\* str.splitlines() on a text whose only line boundary is "\n"
RECURSIVE splitlines(_)
splitlines(t) ==
  IF t = << >> THEN << >>
  ELSE IF \E i \in 1..Len(t) : t[i] = NL
    THEN LET i == CHOOSE j \in 1..Len(t) :
                    t[j] = NL /\ \A k \in 1..(j - 1) : t[k] # NL
         IN  << SubSeq(t, 1, i - 1) >> \o splitlines(SubSeq(t, i + 1, Len(t)))
    ELSE << t >>

\* set(ID_LIST_FILE.read_text().splitlines())
read_ids(file) == Range(splitlines(file.text))

\* mutation: f.write(id) without the newline
append_id_no_newline(file, id) == [exists |-> TRUE, text |-> file.text \o id]

\* with open(ID_LIST_FILE, "a") as f: f.write(id + "\n")
append_id(file, id) == [exists |-> TRUE, text |-> file.text \o id \o << NL >>]

\* video_data.get("uploader") or video_data.get("uploader_id") or "unknown"
uploader_of(video_data) ==
  IF video_data.uploader # << >> THEN video_data.uploader
  ELSE IF video_data.uploader_id # << >> THEN video_data.uploader_id
  ELSE <<"u","n","k","n","o","w","n">>

\* caption or "No caption"
caption_or_default(cap) ==
  IF cap # << >> THEN cap ELSE <<"N","o"," ","c","a","p","t","i","o","n">>

(***************************************************************************)
(* One invocation of the script                                            *)
(***************************************************************************)
RunInit ==
  /\ pc = "start"
  /\ argv_url \in BOOLEAN
  /\ caption = << >>
  /\ hashtags = << >>
  /\ uploader = << >>
  /\ result = None
  /\ video_info = None
  /\ uploaded_ids = {}
  /\ video_path = None
  /\ calls = << >>
  /\ log = << >>
  /\ exit_code = None

Init ==
  /\ ledger \in InitLedgers
  /\ ledger_init = ledger
  /\ ledger_start = ledger
  /\ run = 1
  /\ files = {}
  /\ recorded = {}
  /\ RunInit

history == << recorded, ledger_start, ledger_init >>

\* lines 244-254: no URL on the command line
Usage ==
  /\ pc = "start" /\ ~ argv_url
  /\ pc' = "exited"
  /\ log' = log \o << "Usage" >>
  /\ exit_code' = Some(1)
  /\ UNCHANGED << ledger, run, argv_url, caption, hashtags, uploader, result,
                  video_info, uploaded_ids, video_path, files, calls, history >>

\* mutation: the handler returns None without printing the error
GetVideoInfoCalledProcessError_silent ==
  /\ pc = "start" /\ argv_url
  /\ calls' = calls \o << "yt_dlp -j" >>
  /\ video_info' = None
  /\ pc' = "check_info"
  /\ UNCHANGED << ledger, run, argv_url, caption, hashtags, uploader, result,
                  uploaded_ids, video_path, files, log, exit_code, history >>

\* get_video_info, lines 155-157: yt-dlp exits non-zero
GetVideoInfoCalledProcessError ==
  /\ pc = "start" /\ argv_url
  /\ calls' = calls \o << "yt_dlp -j" >>
  /\ log' = log \o << "yt-dlp error" >>
  /\ video_info' = None
  /\ pc' = "check_info"
  /\ UNCHANGED << ledger, run, argv_url, caption, hashtags, uploader, result,
                  uploaded_ids, video_path, files, exit_code, history >>

\* get_video_info, lines 158-160: the output of yt-dlp is not JSON
GetVideoInfoJSONDecodeError ==
  /\ pc = "start" /\ argv_url
  /\ calls' = calls \o << "yt_dlp -j" >>
  /\ log' = log \o << "JSON parsing error" >>
  /\ video_info' = None
  /\ pc' = "check_info"
  /\ UNCHANGED << ledger, run, argv_url, caption, hashtags, uploader, result,
                  uploaded_ids, video_path, files, exit_code, history >>

\* get_video_info, lines 123-140, for every document: caption, uploader,
\* hashtags and the result of is_twice_related
Validated ==
  { [video_data |-> vd,
     caption    |-> vd.description,
     uploader   |-> uploader_of(vd),
     hashtags   |-> findall_hashtags(vd.description),
     result     |-> is_twice_related(vd.description,
                                     findall_hashtags(vd.description),
                                     uploader_of(vd))] : vd \in Payloads }

\* get_video_info, lines 123-153 and 161-163: yt-dlp printed video_data
GetVideoInfo ==
  /\ pc = "start" /\ argv_url
  /\ \E v \in Validated :
       LET video_data == v.video_data
           cap  == v.caption
           up   == v.uploader
           tags == v.hashtags
           r    == v.result
       IN  /\ caption' = cap
           /\ uploader' = up
           /\ hashtags' = tags
           /\ result' = Some(r)
           /\ IF ~ r.is_valid
                THEN /\ log' = log \o << "Skipping video" >>
                     /\ video_info' = None
              ELSE IF video_data.id = None \/ video_data.webpage_url = None
                THEN /\ log' = log \o << "Valid", "Unexpected error" >>
                     /\ video_info' = None
              ELSE /\ log' = log \o << "Valid" >>
                   /\ video_info' = Some([id |-> video_data.id[1],
                                          url |-> video_data.webpage_url[1],
                                          caption |-> caption_or_default(cap),
                                          username |-> up])
  /\ calls' = calls \o << "yt_dlp -j" >>
  /\ pc' = "check_info"
  /\ UNCHANGED << ledger, run, argv_url, uploaded_ids, video_path, files,
                  exit_code, history >>

\* lines 256-258
NoValidVideo ==
  /\ pc = "check_info" /\ video_info = None
  /\ log' = log \o << "No valid TWICE video found" >>
  /\ exit_code' = Some(0)
  /\ pc' = "exited"
  /\ UNCHANGED << ledger, run, argv_url, caption, hashtags, uploader, result,
                  video_info, uploaded_ids, video_path, files, calls, history >>

\* lines 260-264: create the ledger if absent, then read it
ReadLedger ==
  /\ pc = "check_info" /\ video_info # None
  /\ ledger' = IF ~ ledger.exists THEN [exists |-> TRUE, text |-> << >>] ELSE ledger
  /\ uploaded_ids' = read_ids(ledger')
  /\ pc' = "check_ledger"
  /\ UNCHANGED << run, argv_url, caption, hashtags, uploader, result, video_info,
                  video_path, files, calls, log, exit_code, history >>

\* lines 266-268
AlreadyProcessed ==
  /\ pc = "check_ledger" /\ video_info[1].id \in uploaded_ids
  /\ log' = log \o << "Skipping: already processed" >>
  /\ exit_code' = Some(0)
  /\ pc' = "exited"
  /\ UNCHANGED << ledger, run, argv_url, caption, hashtags, uploader, result,
                  video_info, uploaded_ids, video_path, files, calls, history >>

\* video_path = SAVE_DIR / f"{video_id}.mp4"
path_of(id) == <<"d","o","w","n","l","o","a","d","s","/">> \o id \o <<".","m","p","4">>

\* mutation: sys.exit(0) of line 268 is missing, the download also runs
\* after a ledger hit
DownloadComplete_ungated ==
  /\ pc = "check_ledger"
  /\ \E created \in BOOLEAN :
       files' = IF created THEN files \cup { path_of(video_info[1].id) } ELSE files
  /\ calls' = calls \o << "yt_dlp -o" >>
  /\ log' = log \o << "Download complete" >>
  /\ video_path' = Some(path_of(video_info[1].id))
  /\ pc' = "downloaded"
  /\ UNCHANGED << ledger, run, argv_url, caption, hashtags, uploader, result,
                  video_info, uploaded_ids, exit_code, history >>

\* download_video, lines 203-205: yt-dlp exits 0 within the timeout; whether
\* a file now exists at video_path is up to yt-dlp
DownloadComplete ==
  /\ pc = "check_ledger" /\ video_info[1].id \notin uploaded_ids
  /\ \E created \in BOOLEAN :
       files' = IF created THEN files \cup { path_of(video_info[1].id) } ELSE files
  /\ calls' = calls \o << "yt_dlp -o" >>
  /\ log' = log \o << "Download complete" >>
  /\ video_path' = Some(path_of(video_info[1].id))
  /\ pc' = "downloaded"
  /\ UNCHANGED << ledger, run, argv_url, caption, hashtags, uploader, result,
                  video_info, uploaded_ids, exit_code, history >>

\* download_video, lines 206-208
DownloadTimeout ==
  /\ pc = "check_ledger" /\ video_info[1].id \notin uploaded_ids
  /\ calls' = calls \o << "yt_dlp -o" >>
  /\ log' = log \o << "Download timeout" >>
  /\ video_path' = None
  /\ pc' = "downloaded"
  /\ UNCHANGED << ledger, run, argv_url, caption, hashtags, uploader, result,
                  video_info, uploaded_ids, files, exit_code, history >>

\* download_video, lines 209-211
DownloadFailed ==
  /\ pc = "check_ledger" /\ video_info[1].id \notin uploaded_ids
  /\ calls' = calls \o << "yt_dlp -o" >>
  /\ log' = log \o << "Download failed" >>
  /\ video_path' = None
  /\ pc' = "downloaded"
  /\ UNCHANGED << ledger, run, argv_url, caption, hashtags, uploader, result,
                  video_info, uploaded_ids, files, exit_code, history >>

\* download_video, line 203: subprocess.run raises something else (OSError
\* when the child cannot be started); no handler, the interpreter exits 1
DownloadUncaught ==
  /\ pc = "check_ledger" /\ video_info[1].id \notin uploaded_ids
  /\ calls' = calls \o << "yt_dlp -o" >>
  /\ log' = log \o << "Traceback" >>
  /\ exit_code' = Some(1)
  /\ pc' = "exited"
  /\ UNCHANGED << ledger, run, argv_url, caption, hashtags, uploader, result,
                  video_info, uploaded_ids, video_path, files, history >>

\* mutation: the existence of the file is not tested
download_ok_path_only == video_path # None

\* mutation: the ledger is written whatever download_video returned
download_ok_always == TRUE

\* line 278
download_ok == video_path # None /\ video_path[1] \in files

\* mutation: lines 291-292 are live, the downloaded file is deleted
Record_unlink ==
  /\ pc = "downloaded" /\ video_path # None /\ video_path[1] \in files
  /\ ledger' = [exists |-> TRUE, text |-> ledger.text \o video_info[1].id \o << NL >>]
  /\ recorded' = recorded \cup { video_info[1].id }
  /\ files' = files \ { video_path[1] }
  /\ log' = log \o << "Video downloaded successfully", "Skipping Facebook upload",
                      "Video ID added to history", "Process complete" >>
  /\ exit_code' = Some(0)
  /\ pc' = "exited"
  /\ UNCHANGED << run, argv_url, caption, hashtags, uploader, result, video_info,
                  uploaded_ids, video_path, calls, ledger_start, ledger_init >>

\* lines 278-303 with the condition of line 278 true: the identifier is
\* written to the ledger; post_to_facebook is not called (lines 284-295 are
\* a string literal) and the file is not deleted
Record ==
  /\ pc = "downloaded" /\ download_ok
  /\ ledger' = append_id(ledger, video_info[1].id)
  /\ recorded' = recorded \cup { video_info[1].id }
  /\ log' = log \o << "Video downloaded successfully", "Skipping Facebook upload",
                      "Video ID added to history", "Process complete" >>
  /\ exit_code' = Some(0)
  /\ pc' = "exited"
  /\ UNCHANGED << run, argv_url, caption, hashtags, uploader, result, video_info,
                  uploaded_ids, video_path, files, calls, ledger_start, ledger_init >>

\* lines 278 and 303 with the condition of line 278 false
Complete ==
  /\ pc = "downloaded" /\ ~ download_ok
  /\ log' = log \o << "Process complete" >>
  /\ exit_code' = Some(0)
  /\ pc' = "exited"
  /\ UNCHANGED << ledger, run, argv_url, caption, hashtags, uploader, result,
                  video_info, uploaded_ids, video_path, files, calls, history >>

\* the scheduler starts the script again after the previous process exited
NextRun ==
  /\ pc = "exited" /\ run < MaxRuns
  /\ run' = run + 1
  /\ ledger_start' = ledger
  /\ pc' = "start"
  /\ argv_url' \in BOOLEAN
  /\ caption' = << >>
  /\ hashtags' = << >>
  /\ uploader' = << >>
  /\ result' = None
  /\ video_info' = None
  /\ uploaded_ids' = {}
  /\ video_path' = None
  /\ calls' = << >>
  /\ log' = << >>
  /\ exit_code' = None
  /\ UNCHANGED << ledger, files, recorded, ledger_init >>

Next ==
  \/ Usage
  \/ GetVideoInfoCalledProcessError
  \/ GetVideoInfoJSONDecodeError
  \/ GetVideoInfo
  \/ NoValidVideo
  \/ ReadLedger
  \/ AlreadyProcessed
  \/ DownloadComplete
  \/ DownloadTimeout
  \/ DownloadFailed
  \/ DownloadUncaught
  \/ Record
  \/ Complete
  \/ NextRun

Spec == Init /\ [][Next]_vars

(***************************************************************************)
(* is_twice_related on its own: any caption, hashtag list and uploader     *)
(***************************************************************************)
ClassifyInit ==
  /\ pc = "classify"
  /\ caption \in Captions
  /\ hashtags \in HashtagLists
  /\ uploader \in Uploaders
  /\ result = None
  /\ ledger = [exists |-> FALSE, text |-> << >>]
  /\ ledger_init = ledger
  /\ ledger_start = ledger
  /\ run = 1
  /\ argv_url = TRUE
  /\ video_info = None
  /\ uploaded_ids = {}
  /\ video_path = None
  /\ files = {}
  /\ calls = << >>
  /\ log = << >>
  /\ exit_code = None
  /\ recorded = {}

Classify ==
  /\ pc = "classify"
  /\ result' = Some(is_twice_related(caption, hashtags, uploader))
  /\ pc' = "classified"
  /\ UNCHANGED << ledger, run, argv_url, caption, hashtags, uploader, video_info,
                  uploaded_ids, video_path, files, calls, log, exit_code, history >>

ClassifyNext == Classify

ClassifySpec == ClassifyInit /\ [][ClassifyNext]_vars

(***************************************************************************)
(* get_video_info, lines 125-140 on their own: the hashtags are extracted  *)
(* from the caption and the two are handed to is_twice_related             *)
(***************************************************************************)
FetchCaptionWords ==
  { <<"#","t","w","i","c","e">>, <<"#","T","W","I","C","E">>,
    <<"#","M","o","m","o">>, <<"#","n","a","y","e","o","n">>,
    <<"B","T","S">>, <<"#","m","o","m","o","l","a","n","d">> }

FetchCaptions == { JoinWords(ws) : ws \in SeqsUpTo(FetchCaptionWords, MaxWords) }

FetchInit ==
  /\ pc = "fetched"
  /\ caption \in FetchCaptions
  /\ uploader \in Uploaders
  /\ hashtags = << >>
  /\ result = None
  /\ ledger = [exists |-> FALSE, text |-> << >>]
  /\ ledger_init = ledger
  /\ ledger_start = ledger
  /\ run = 1
  /\ argv_url = TRUE
  /\ video_info = None
  /\ uploaded_ids = {}
  /\ video_path = None
  /\ files = {}
  /\ calls = << >>
  /\ log = << >>
  /\ exit_code = None
  /\ recorded = {}

\* lines 129 and 140
ExtractAndClassify ==
  /\ pc = "fetched"
  /\ hashtags' = findall_hashtags(caption)
  /\ result' = Some(is_twice_related(caption, hashtags', uploader))
  /\ pc' = "classified"
  /\ UNCHANGED << ledger, run, argv_url, caption, uploader, video_info,
                  uploaded_ids, video_path, files, calls, log, exit_code, history >>

FetchNext == ExtractAndClassify

FetchSpec == FetchInit /\ [][FetchNext]_vars

(***************************************************************************)
(* Vocabulary of the properties                                            *)
(***************************************************************************)
Classified == pc = "classified" /\ result # None

\* the uploader is one of OFFICIAL_ACCOUNTS_TO_SKIP, case-insensitively
OfficialUploader ==
  \E i \in 1..Len(OFFICIAL_ACCOUNTS_TO_SKIP) :
     lower(OFFICIAL_ACCOUNTS_TO_SKIP[i]) = lower(uploader)

\* the topic hashtag is among the lowercased hashtags
TopicTagPresent ==
  \E i \in 1..Len(hashtags) : lower(hashtags[i]) = <<"t","w","i","c","e">>

\* some blocklist phrase occurs in the caption (compared in lower case)
BlocklistPhraseInCaption ==
  \E i \in 1..Len(blocklist) : IsSubstring(blocklist[i], lower(caption))

\* the evidence count of the current input
EvidenceOfInput ==
  evidence_count(lower(caption), [ i \in 1..Len(hashtags) |-> lower(hashtags[i]) ])

\* the current invocation wrote to the ledger
AppendedThisRun == ledger.text # ledger_start.text

\* the current invocation called the upload API
PublishedThisRun == InList("requests.post", calls)

\* download_video returned a path and the file is there
DownloadSucceeded == video_path # None /\ video_path[1] \in files

\* the lines of a ledger file are pairwise different
NoDuplicateLines(file) ==
  \A i, j \in 1..Len(splitlines(file.text)) :
     i # j => splitlines(file.text)[i] # splitlines(file.text)[j]

\* the last line of the file is not terminated by a newline
MissingTrailingNewline(file) ==
  file.text # << >> /\ file.text[Len(file.text)] # NL

\* the invocation ended by a failure or a negative decision
EndedByFailureOrNegative ==
  /\ pc = "exited"
  /\ \/ InList("No valid TWICE video found", log)
     \/ InList("Skipping: already processed", log)
     \/ InList("Download timeout", log)
     \/ InList("Download failed", log)

(***************************************************************************)
(* C1.  As stated: in every run the identifier is appended to the ledger   *)
(* if and only if both the download and the publish succeeded in that run. *)
(***************************************************************************)
C1_AppendIffDownloadedAndPublished ==
  pc = "exited" => (AppendedThisRun <=> (DownloadSucceeded /\ PublishedThisRun))

\* C1, amended: in every run the candidate's identifier is appended to the
\* ledger if and only if the download succeeded in that run (download_video
\* returned a path and the file exists); the append is then exactly the
\* identifier and a newline, and no publish is invoked.
C1_AppendIffDownloaded ==
  pc = "exited" =>
    /\ AppendedThisRun <=> DownloadSucceeded
    /\ DownloadSucceeded =>
         ledger.text = ledger_start.text \o video_info[1].id \o << NL >>
    /\ ~ PublishedThisRun

C1_Witness ==
  pc = "exited" /\ DownloadSucceeded /\ AppendedThisRun /\ ~ PublishedThisRun

(***************************************************************************)
(* C2.  Idempotence: a run whose candidate's identifier was appended by an *)
(* earlier run stops at the ledger check: its next step exits without a    *)
(* download and without a write to the ledger.                             *)
(***************************************************************************)
C2_Idempotent ==
  [][ (pc = "check_ledger" /\ video_info[1].id \in recorded)
        => (pc' = "exited" /\ calls' = calls /\ ledger' = ledger) ]_vars

(***************************************************************************)
(* C3.  As stated: for an official uploader, whenever the topic hashtag is *)
(* present and no blocklist phrase occurs in the caption, the verdict is   *)
(* true whatever the evidence count.                                       *)
(***************************************************************************)
C3_OfficialAccepted ==
  (Classified /\ OfficialUploader /\ TopicTagPresent /\ ~ BlocklistPhraseInCaption)
    => result[1].is_valid

\* C3, amended: for an official uploader classify never returns false for
\* insufficient evidence, and it never returns true either: the verdict is
\* false whatever the hashtags, the caption and the evidence count.
C3_OfficialNeverInsufficient ==
  (Classified /\ OfficialUploader)
    => /\ ~ result[1].is_valid
       /\ result[1].reason[1] # "Insufficient evidence"

C3_Witness ==
  /\ Classified /\ OfficialUploader /\ TopicTagPresent
  /\ ~ BlocklistPhraseInCaption /\ EvidenceOfInput = 0
  /\ uploader # lower(uploader)
  /\ ~ result[1].is_valid

(***************************************************************************)
(* C4.  As stated: for every caption, hashtag list and uploader where the  *)
(* topic hashtag is not among the lowercased hashtags, the verdict is      *)
(* false and the reason is the missing-hashtag reason.                     *)
(***************************************************************************)
C4_MissingHashtagAnyUploader ==
  (Classified /\ ~ TopicTagPresent)
    => /\ ~ result[1].is_valid
       /\ result[1].reason = <<"Missing #twice hashtag">>

\* C4, amended: the same for every uploader that is not an official
\* account; for every uploader the verdict is false.
C4_MissingHashtag ==
  (Classified /\ ~ TopicTagPresent)
    => /\ ~ result[1].is_valid
       /\ ~ OfficialUploader => result[1].reason = <<"Missing #twice hashtag">>

C4_Witness ==
  /\ Classified /\ ~ TopicTagPresent /\ ~ OfficialUploader
  /\ hashtags # << >> /\ EvidenceOfInput >= 2
  /\ result[1].reason = <<"Missing #twice hashtag">>

\* the edge case of C4: empty caption and no hashtag at all
C4_WitnessEmpty ==
  /\ Classified /\ caption = << >> /\ hashtags = << >>
  /\ result[1].reason = <<"Missing #twice hashtag">>

(***************************************************************************)
(* C5.  Blocklist override: no input whose caption contains a blocklist    *)
(* phrase yields a true verdict, also when the topic hashtag is present    *)
(* and the evidence count meets the threshold.                             *)
(***************************************************************************)
C5_BlocklistOverrides ==
  (Classified /\ BlocklistPhraseInCaption) => ~ result[1].is_valid

C5_Witness ==
  /\ Classified /\ BlocklistPhraseInCaption /\ TopicTagPresent
  /\ ~ OfficialUploader /\ EvidenceOfInput >= 2
  /\ ~ result[1].is_valid
  /\ result[1].reason[1] = "Blocklist keyword detected"

(***************************************************************************)
(* C6.  For a non-official uploader the verdict is false whenever the      *)
(* evidence count is below 2, and when the topic hashtag is present the    *)
(* reason cites the count against the threshold 2.                         *)
(***************************************************************************)
C6_FanNeedsTwo ==
  (Classified /\ ~ OfficialUploader /\ EvidenceOfInput < 2)
    => /\ ~ result[1].is_valid
       /\ TopicTagPresent =>
            result[1].reason = <<"Insufficient evidence", EvidenceOfInput, 2>>

C6_Witness ==
  /\ Classified /\ ~ OfficialUploader /\ TopicTagPresent
  /\ EvidenceOfInput = 1
  /\ result[1].reason = <<"Insufficient evidence", 1, 2>>

(***************************************************************************)
(* C7.  Round trip: starting from an absent or empty ledger, the           *)
(* identifiers for which the membership check is true are exactly those    *)
(* written by the successful runs so far, at every point and in the set    *)
(* read at the start of a run.                                             *)
(***************************************************************************)
C7_RoundTrip ==
  ledger_init.text = << >> =>
    /\ read_ids(ledger) = recorded
    /\ pc = "check_ledger" => uploaded_ids = recorded

C7_Witness ==
  /\ ledger_init.text = << >> /\ pc = "exited" /\ run = 2
  /\ Cardinality(recorded) = 2 /\ Cardinality(uploaded_ids) = 1
  /\ read_ids(ledger) = recorded

(***************************************************************************)
(* C8.  Starting from a ledger without duplicate lines, no line occurs     *)
(* twice in the ledger after any sequence of non-overlapping runs.         *)
(***************************************************************************)
C8_NoDuplicates ==
  NoDuplicateLines(ledger_init) => NoDuplicateLines(ledger)

(***************************************************************************)
(* C9.  For a ledger whose last line is not newline-terminated, the        *)
(* membership check is true for every identifier recorded in the file,     *)
(* also after later runs appended to it, and for every identifier those    *)
(* runs appended.                                                          *)
(***************************************************************************)
C9_ToleratesMissingNewline ==
  MissingTrailingNewline(ledger_init) =>
    (read_ids(ledger_init) \cup recorded) \subseteq read_ids(ledger)

(***************************************************************************)
(* C10.  A run that ends by a failure or a negative decision leaves the    *)
(* ledger's text, and so its set of identifiers, as it was before the run. *)
(***************************************************************************)
C10_FailureLeavesLedger ==
  EndedByFailureOrNegative =>
    /\ read_ids(ledger) = read_ids(ledger_start)
    /\ ledger.text = ledger_start.text

C10_Witness ==
  /\ EndedByFailureOrNegative
  /\ InList("Download timeout", log)
  /\ read_ids(ledger_start) # {}
  /\ read_ids(ledger) = read_ids(ledger_start)

(***************************************************************************)
(* C11.  As stated: in every run that reaches the recording step the       *)
(* ledger append is followed by the deletion of the downloaded file, so    *)
(* that the file no longer exists when the run has ended.  (The script     *)
(* makes no deletion attempt, so none can have failed.)                    *)
(***************************************************************************)
C11_FileDeletedAfterAppend ==
  (pc = "exited" /\ AppendedThisRun) => video_path[1] \notin files

\* C11, amended: in every run that reaches the recording step the ledger
\* append is followed by no deletion: the downloaded file still exists at
\* its path when the run has ended, and the run reports success.
C11_FileKeptAfterAppend ==
  (pc = "exited" /\ AppendedThisRun)
    => /\ video_path # None
       /\ video_path[1] = path_of(video_info[1].id)
       /\ video_path[1] \in files
       /\ exit_code = Some(0)

C11_Witness ==
  /\ pc = "exited" /\ AppendedThisRun
  /\ InList("Video ID added to history", log)
  /\ video_path[1] \in files

(***************************************************************************)
(* What happened in the current invocation, read from its variables, and   *)
(* what it printed                                                         *)
(***************************************************************************)
\* the metadata fetch failed: yt-dlp was called and no verdict was reached,
\* or the document lacked a key after a positive verdict
FetchFailed ==
  /\ InList("yt_dlp -j", calls) /\ video_info = None
  /\ (result = None \/ result[1].is_valid)

\* negative verdict of is_twice_related
FilteredOut == result # None /\ ~ result[1].is_valid

\* the identifier was in the set read from the ledger
LedgerHit == video_info # None /\ video_info[1].id \in uploaded_ids

\* download_video was called and returned no path
DownloadFailedOrTimedOut == InList("yt_dlp -o", calls) /\ video_path = None

ErrorLines ==
  { "yt-dlp error", "JSON parsing error", "Unexpected error",
    "Download timeout", "Download failed", "Traceback" }

ReportsFailure == \E i \in 1..Len(log) : log[i] \in ErrorLines
ReportsSuccess == InList("Video ID added to history", log)
ReportsNothingToDo ==
  InList("Skipping video", log) \/ InList("Skipping: already processed", log)

C13_NoUncaughtFault ==
  /\ ~ InList("Traceback", log)
  /\ (pc = "exited" /\ argv_url) =>
       /\ exit_code = Some(0)
       /\ \/ InList("No valid TWICE video found", log)
          \/ InList("Skipping: already processed", log)
          \/ InList("Process complete", log)

(***************************************************************************)
(* C14.  Official accounts are excluded: for an uploader that is, case-    *)
(* insensitively, in OFFICIAL_ACCOUNTS_TO_SKIP the result is the false     *)
(* verdict with the skipping-official-account reason naming the uploader,  *)
(* for every caption and hashtag list, with or without the topic hashtag.  *)
(***************************************************************************)
C14_OfficialSkipped ==
  (Classified /\ OfficialUploader)
    => result[1] = [is_valid |-> FALSE,
                    reason |-> <<"Skipping official account", uploader>>]

C14_Witness ==
  /\ Classified /\ OfficialUploader /\ ~ TopicTagPresent
  /\ uploader # lower(uploader)
  /\ result[1].reason = <<"Skipping official account", uploader>>

(***************************************************************************)
(* The evidence rule, counted on sets                                      *)
(***************************************************************************)
LowerTags == { lower(hashtags[i]) : i \in 1..Len(hashtags) }

RosterNamesAmongTags == { m \in Range(TWICE_MEMBERS) : m \in LowerTags }

RosterNameInCaption ==
  \E m \in Range(TWICE_MEMBERS) : IsSubstring(m, lower(caption))

SpecificTagsInTags ==
  { t \in Range(twice_specific_tags) : \E h \in LowerTags : IsSubstring(t, h) }

GroupKeywordInCaption ==
  \E k \in Range(group_keywords) : IsSubstring(k, lower(caption))

EvidenceByRule ==
    Cardinality(RosterNamesAmongTags)
  + (IF RosterNameInCaption THEN 1 ELSE 0)
  + Cardinality(SpecificTagsInTags)
  + (IF GroupKeywordInCaption THEN 1 ELSE 0)

Stopped == FetchFailed \/ FilteredOut \/ LedgerHit \/ DownloadFailedOrTimedOut

C15_SequentialAndGated ==
  [][ /\ calls' = calls \o << "yt_dlp -o" >>
        => /\ calls = << "yt_dlp -j" >>
           /\ result # None /\ result[1].is_valid
           /\ video_info # None
           /\ video_info[1].id \notin uploaded_ids
           /\ video_info[1].id \notin read_ids(ledger)
      /\ (Stopped /\ run' = run)
        => (calls' = calls /\ ledger' = ledger /\ files' = files) ]_vars

C15_Witness ==
  /\ pc = "exited" /\ LedgerHit /\ run = 2
  /\ video_info[1].id \in recorded
  /\ calls = << "yt_dlp -j" >> /\ ledger = ledger_start

(***************************************************************************)
(* C17.  The ledger is append-only: no step removes an identifier from it, *)
(* a step adds at most one identifier and only the current candidate's,    *)
(* the existing lines stay as they are, and the file is created empty only *)
(* when it is absent.                                                      *)
(***************************************************************************)
IsPrefix(s, t) == Len(s) <= Len(t) /\ SubSeq(t, 1, Len(s)) = s

C17_AppendOnly ==
  [][ /\ read_ids(ledger) \subseteq read_ids(ledger')
      /\ read_ids(ledger') \ read_ids(ledger) # {}
           => (video_info # None
               /\ read_ids(ledger') \ read_ids(ledger) = { video_info[1].id })
      /\ IsPrefix(splitlines(ledger.text), splitlines(ledger'.text))
      /\ ledger.exists => (ledger'.exists /\ IsPrefix(ledger.text, ledger'.text))
      /\ (~ ledger.exists /\ ledger'.exists) => ledger'.text = << >> ]_vars

\* the part of C17 that concerns the bytes of the file
C17_TextOnlyGrows ==
  [][ /\ ledger.exists => (ledger'.exists /\ IsPrefix(ledger.text, ledger'.text))
      /\ (~ ledger.exists /\ ledger'.exists) => ledger'.text = << >> ]_vars

(***************************************************************************)
(* C18.  For a candidate of get_video_info, whose hashtags are those found *)
(* in its caption, a roster name among the hashtags is also found in the   *)
(* caption, so the evidence is at least 2: every candidate of a            *)
(* non-official uploader with the topic hashtag, at least one roster-name  *)
(* hashtag and no blocklist phrase is classified true.                     *)
(***************************************************************************)
C18_RosterHashtagSuffices ==
  (Classified /\ hashtags = findall_hashtags(caption))
    => /\ RosterNamesAmongTags # {} => (RosterNameInCaption /\ EvidenceByRule >= 2)
       /\ (~ OfficialUploader /\ TopicTagPresent /\ RosterNamesAmongTags # {}
           /\ ~ BlocklistPhraseInCaption)
            => (result[1].is_valid /\ result[1].reason[2] >= 2)

C18_Witness ==
  /\ Classified /\ hashtags = findall_hashtags(caption)
  /\ ~ OfficialUploader /\ TopicTagPresent /\ Len(hashtags) = 2
  /\ Cardinality(RosterNamesAmongTags) = 1
  /\ SpecificTagsInTags = {} /\ ~ GroupKeywordInCaption
  /\ result[1].is_valid /\ result[1].reason[2] = 2

(***************************************************************************)
(* C19.  The ledger is written only when the downloaded file exists at    *)
(* the expected path: a run in which download_video returned a path where  *)
(* no file exists appends nothing to the ledger, prints the closing line   *)
(* and exits with status 0 without the success line.                       *)
(***************************************************************************)
C19_NoFileNoAppend ==
  pc = "exited" =>
    /\ (video_path # None /\ video_path[1] \notin files)
         => /\ ledger.text = ledger_start.text
            /\ exit_code = Some(0)
            /\ log[Len(log)] = "Process complete"
            /\ ~ InList("Video ID added to history", log)
    /\ InList("Video ID added to history", log)
         => path_of(video_info[1].id) \in files

C19_Witness ==
  /\ pc = "exited" /\ video_path # None /\ video_path[1] \notin files
  /\ InList("Download complete", log)
  /\ ledger.text = ledger_start.text /\ exit_code = Some(0)
=============================================================================
